---- MODULE Spec2Model ----
(***************************************************************************)
(* DMARC policy engine of mail-auth: Resolver::verify_dmarc,               *)
(* Resolver::dmarc_tree_walk and Resolver::verify_dmarc_report_address     *)
(* (src/src/dmarc/verify.rs).                                              *)
(*                                                                         *)
(* Strings are sequences of one-character strings, so that ends_with,      *)
(* split, rsplit_once and format! are computed on characters as the code   *)
(* computes them.  Option values are sequences of length 0 or 1.           *)
(***************************************************************************)
EXTENDS Naturals, Sequences, FiniteSets

VARIABLES
    message_from,      \* message.from: the RFC5322.From addresses
    dkim_output,       \* &[DkimOutput]: records [result, d]
    mail_from_domain,  \* RFC5321.MailFrom domain
    spf_output,        \* SpfOutput.result
    pc,                \* position inside verify_dmarc / verify_dmarc_report_address
    from_domain,       \* local from_domain of verify_dmarc
    labels,            \* dmarc_tree_walk: labels
    x,                 \* dmarc_tree_walk: x
    queries,           \* names handed to txt_lookup so far, in order
    answers,           \* what each of those txt_lookup calls returned, in order
    walk,              \* the value dmarc_tree_walk returned (Option)
    output,            \* the DmarcOutput verify_dmarc returned (Option)
    report_domain,     \* verify_dmarc_report_address: domain
    addresses,         \* verify_dmarc_report_address: addresses (URI.uri)
    dns,               \* TXT answers for the report-authorisation names
    idx,               \* verify_dmarc_report_address: position of the for loop
    result,            \* verify_dmarc_report_address: result vector
    ret                \* verify_dmarc_report_address: returned value (Option of Option)

vars == <<message_from, dkim_output, mail_from_domain, spf_output, pc, from_domain,
          labels, x, queries, answers, walk, output, report_domain, addresses, dns,
          idx, result, ret>>

dmarc_vars == <<message_from, dkim_output, mail_from_domain, spf_output, from_domain,
                labels, x, walk, output>>

report_vars == <<report_domain, addresses, dns, idx, result, ret>>

---------------------------------------------------------------------------
(* Bounds of the model. *)

MaxLabels == 6
MaxFrom == 2
MaxDkim == 2
MaxUris == 2

---------------------------------------------------------------------------
(* Strings. *)

\* str::ends_with
EndsWith(s, suffix) ==
    /\ Len(suffix) <= Len(s)
    /\ SubSeq(s, Len(s) - Len(suffix) + 1, Len(s)) = suffix

\* format!(".{}", d)
DotPrefixed(d) == <<".">> \o d

\* Position of the last occurrence of character c in s, 0 when there is none.
LastIndexOf(s, c) ==
    IF \E i \in 1..Len(s) : s[i] = c
    THEN CHOOSE i \in 1..Len(s) : s[i] = c /\ \A j \in (i+1)..Len(s) : s[j] # c
    ELSE 0

\* str::rsplit_once(c).map(|(_, d)| d): the part after the last c, as an Option.
RSplitOnceAfter(s, c) ==
    IF LastIndexOf(s, c) = 0
    THEN <<>>
    ELSE <<SubSeq(s, LastIndexOf(s, c) + 1, Len(s))>>

\* Position of the first occurrence of character c in s, 0 when there is none.
FirstIndexOf(s, c) ==
    IF \E i \in 1..Len(s) : s[i] = c
    THEN CHOOSE i \in 1..Len(s) : s[i] = c /\ \A j \in 1..(i-1) : s[j] # c
    ELSE 0

\* str::split(c).collect::<Vec<_>>(): never empty, the pieces hold no c.
RECURSIVE Split(_, _)
Split(s, c) ==
    IF FirstIndexOf(s, c) = 0
    THEN <<s>>
    ELSE <<SubSeq(s, 1, FirstIndexOf(s, c) - 1)>>
         \o Split(SubSeq(s, FirstIndexOf(s, c) + 1, Len(s)), c)

---------------------------------------------------------------------------
(* Values. *)

None == <<>>
Some(v) == <<v>>

Strict == "Strict"
Relaxed == "Relaxed"

\* DkimResult::Pass / SpfResult::Pass and one of the other results
ResultPass == "Pass"
ResultFail == "Fail"

\* DmarcResult
DmarcNone == [kind |-> "None"]
DmarcPass == [kind |-> "Pass"]
DmarcFail(err) == [kind |-> "Fail", err |-> err]
DmarcTempError(err) == [kind |-> "TempError", err |-> err]

\* Error
DMARCNotAligned == "DMARCNotAligned"
DNSRecordNotFound == "DNSRecordNotFound"
InvalidRecordType == "InvalidRecordType"
DNSError == "DNSError"

\* Policy::default(), the policy of DmarcOutput::default()
PolicyDefault == "Unspecified"

\* DmarcOutput::default()
DefaultDmarcOutput ==
    [domain |-> <<>>, policy |-> PolicyDefault, spf_result |-> DmarcNone,
     dkim_result |-> DmarcNone, record |-> None]

\* DmarcResult::from(err): a transient DNS error becomes temperror
DmarcResultFrom(err) == DmarcTempError(err)

---------------------------------------------------------------------------
(* verify_dmarc: extraction of the RFC5322.From domain. *)

\* The for loop over message.from, from address i on, with from_domain = acc.
\* exempt: the loop returned DmarcOutput::default() on a second, different domain.
RECURSIVE ExtractFromLoop(_, _, _)
ExtractFromLoop(from, i, acc) ==
    IF i > Len(from)
    THEN [exempt |-> FALSE, from_domain |-> acc]
    ELSE IF RSplitOnceAfter(from[i], "@") = None
         THEN ExtractFromLoop(from, i + 1, acc)
         ELSE IF acc = <<>>
              THEN ExtractFromLoop(from, i + 1, RSplitOnceAfter(from[i], "@")[1])
              ELSE IF acc # RSplitOnceAfter(from[i], "@")[1]
                   THEN [exempt |-> TRUE, from_domain |-> acc]
                   ELSE ExtractFromLoop(from, i + 1, acc)

\* Variant: the first address with a domain decides, later ones are not compared.
ExtractFromFirst(from) ==
    IF \E i \in 1..Len(from) : RSplitOnceAfter(from[i], "@") \notin {None, Some(<<>>)}
    THEN [exempt |-> FALSE,
          from_domain |->
              RSplitOnceAfter(from[CHOOSE i \in 1..Len(from) :
                  /\ RSplitOnceAfter(from[i], "@") \notin {None, Some(<<>>)}
                  /\ \A j \in 1..(i - 1) :
                         RSplitOnceAfter(from[j], "@") \in {None, Some(<<>>)}], "@")[1]]
    ELSE [exempt |-> FALSE, from_domain |-> <<>>]

ExtractFrom(from) == ExtractFromLoop(from, 1, <<>>)

---------------------------------------------------------------------------
(* dmarc_tree_walk. *)

\* "_dmarc", then "." and the label for each of the rightmost x labels, then "."
RECURSIVE PushLabels(_, _, _)
PushLabels(domain, ls, i) ==
    IF i > Len(ls)
    THEN domain
    ELSE PushLabels(domain \o <<".">> \o ls[i], ls, i + 1)

\* Variant: the leftmost n labels (take instead of skip).
QueryNameLeftmost(ls, n) ==
    PushLabels(<<"_", "d", "m", "a", "r", "c">>, SubSeq(ls, 1, n), 1) \o <<".">>

QueryName(ls, n) ==
    PushLabels(<<"_", "d", "m", "a", "r", "c">>, ls, Len(ls) - n + 1) \o <<".">>

\* Variant: every error is skipped.
WalkContinuesOnAnyError(err) == TRUE

\* The errors after which the walk goes on to the next candidate.
WalkContinues(err) == err \in {DNSRecordNotFound, InvalidRecordType}

\* Variant: always remove one label.
NextXDecrement(n) == n - 1

\* If x < 5 remove the left-most label, if x >= 5 remove labels until 4 remain.
NextX(n) == IF n < 5 THEN n - 1 ELSE 4

\* crate::Result<Option<Arc<Dmarc>>>
WalkOk(opt) == [kind |-> "Ok", dmarc |-> opt]
WalkErr(err) == [kind |-> "Err", err |-> err]

---------------------------------------------------------------------------
(* verify_dmarc: identifier alignment. *)

\* Variant: any DKIM output at all.
HasDkimOutput(dkim) == Len(dkim) > 0

\* dkim_output.iter().any(|o| o.result == DkimResult::Pass)
HasDkimPass(dkim) == \E i \in 1..Len(dkim) : dkim[i].result = ResultPass

\* Variant: equality is tested in strict mode only.
SpfAlignmentExactOnlyWhenStrict(dmarc, mail_from, from) ==
    IF dmarc.aspf = Strict
    THEN IF mail_from = from
         THEN [result |-> DmarcPass, shift |-> FALSE]
         ELSE [result |-> DmarcFail(DMARCNotAligned), shift |-> FALSE]
    ELSE IF \/ EndsWith(mail_from, DotPrefixed(from))
            \/ EndsWith(from, DotPrefixed(mail_from))
         THEN [result |-> DmarcPass, shift |-> TRUE]
         ELSE [result |-> DmarcFail(DMARCNotAligned), shift |-> FALSE]

\* SPF alignment when spf_output.result is Pass.  shift: output.policy = dmarc.sp.
SpfAlignment(dmarc, mail_from, from) ==
    IF mail_from = from
    THEN [result |-> DmarcPass, shift |-> FALSE]
    ELSE IF \/ /\ dmarc.aspf = Relaxed
               /\ EndsWith(mail_from, DotPrefixed(from))
            \/ EndsWith(from, DotPrefixed(mail_from))
         THEN [result |-> DmarcPass, shift |-> TRUE]
         ELSE [result |-> DmarcFail(DMARCNotAligned), shift |-> FALSE]

\* Variant: the signature's result is not looked at.
DkimSubdomainMatchAnyResult(dkim, from) ==
    \E i \in 1..Len(dkim) :
        \/ EndsWith(dkim[i].d, DotPrefixed(from))
        \/ EndsWith(from, DotPrefixed(dkim[i].d))

\* any passing signature whose d is below or above from_domain
DkimSubdomainMatch(dkim, from) ==
    \E i \in 1..Len(dkim) :
        /\ dkim[i].result = ResultPass
        /\ \/ EndsWith(dkim[i].d, DotPrefixed(from))
           \/ EndsWith(from, DotPrefixed(dkim[i].d))

\* any passing signature whose d is from_domain
DkimExactMatch(dkim, from) ==
    \E i \in 1..Len(dkim) : dkim[i].result = ResultPass /\ dkim[i].d = from

\* Variant: a failed alignment leaves the policy alone.
DkimAlignmentNoShiftOnFail(dmarc, dkim, from) ==
    IF \E i \in 1..Len(dkim) : dkim[i].result = ResultPass /\ dkim[i].d = from
    THEN [result |-> DmarcPass, shift |-> FALSE]
    ELSE IF /\ dmarc.adkim = Relaxed
            /\ \E i \in 1..Len(dkim) :
                   /\ dkim[i].result = ResultPass
                   /\ \/ EndsWith(dkim[i].d, DotPrefixed(from))
                      \/ EndsWith(from, DotPrefixed(dkim[i].d))
         THEN [result |-> DmarcPass, shift |-> TRUE]
         ELSE [result |-> DmarcFail(DMARCNotAligned), shift |-> FALSE]

\* DKIM alignment when has_dkim_pass.  shift: output.policy = dmarc.sp.
DkimAlignment(dmarc, dkim, from) ==
    IF DkimExactMatch(dkim, from)
    THEN [result |-> DmarcPass, shift |-> FALSE]
    ELSE IF dmarc.adkim = Relaxed /\ DkimSubdomainMatch(dkim, from)
         THEN [result |-> DmarcPass, shift |-> TRUE]
         ELSE [result |-> DmarcFail(DMARCNotAligned),
               shift |-> DkimSubdomainMatch(dkim, from)]

NotChecked == [result |-> DmarcNone, shift |-> FALSE]

\* The output for a found record: alignment of both axes and the policy.
AlignedOutput(dmarc, from, mail_from, spf, dkim) ==
    LET checked == spf = ResultPass \/ HasDkimPass(dkim)
        s == IF checked /\ spf = ResultPass
             THEN SpfAlignment(dmarc, mail_from, from)
             ELSE NotChecked
        d == IF checked /\ HasDkimPass(dkim)
             THEN DkimAlignment(dmarc, dkim, from)
             ELSE NotChecked
    IN  [domain |-> from,
         policy |-> IF s.shift \/ d.shift THEN dmarc.sp ELSE dmarc.p,
         spf_result |-> s.result,
         dkim_result |-> d.result,
         record |-> Some(dmarc)]

\* verify_dmarc after dmarc_tree_walk returned w.
VerifyOutput(w, from, mail_from, spf, dkim) ==
    IF w.kind = "Err"
    THEN [DefaultDmarcOutput EXCEPT !.domain = from,
                                    !.dkim_result = DmarcResultFrom(w.err),
                                    !.spf_result = DmarcResultFrom(w.err)]
    ELSE IF w.dmarc = None
         THEN [DefaultDmarcOutput EXCEPT !.domain = from]
         ELSE AlignedOutput(w.dmarc[1], from, mail_from, spf, dkim)

---------------------------------------------------------------------------
(* Inputs. *)

SeqsUpTo(S, n) == UNION {[1..k -> S] : k \in 0..n}

\* "b", "a.b", "c.a.b", "c.b", "da.b"
S_b == <<"b">>
S_ab == <<"a", ".", "b">>
S_cab == <<"c", ".", "a", ".", "b">>
S_cb == <<"c", ".", "b">>
S_dab == <<"d", "a", ".", "b">>

\* A domain of k labels: "b", "a.b", "a.a.b", ...
RECURSIVE Deep(_)
Deep(k) == IF k = 1 THEN S_b ELSE <<"a", ".">> \o Deep(k - 1)

\* An address of the From header with the domain d
Addr(d) == <<"u", "@">> \o d

\* From addresses: without "@", with an empty domain, and of two domains
FromAddrs == {<<"u">>, Addr(<<>>), Addr(S_ab), Addr(S_cb)}

MailFromDomains == {<<>>, S_b, S_ab, S_cab, S_cb, S_dab}

SignatureDomains == {S_b, S_ab, S_cab, S_cb}

\* DkimOutput: result and signature.d (verify_dmarc unwraps the signature of
\* every passing output, so each output carries one)
DkimOutputs == [result : {ResultPass, ResultFail}, d : SignatureDomains]

\* Dmarc: p, sp, aspf, adkim
DmarcRecords ==
    [p : {"reject", "none"}, sp : {"quarantine", "none"},
     aspf : {Strict, Relaxed}, adkim : {Strict, Relaxed}]

\* What txt_lookup::<Dmarc> may return
TxtOk(r) == [kind |-> "Ok", dmarc |-> r]
TxtErr(e) == [kind |-> "Err", err |-> e]
TxtAnswers ==
    {TxtOk(r) : r \in DmarcRecords}
    \cup {TxtErr(e) : e \in {DNSRecordNotFound, InvalidRecordType, DNSError}}

\* Several From addresses, one authenticated identity
InputsMultiFrom ==
    [message_from : SeqsUpTo(FromAddrs, MaxFrom),
     mail_from_domain : {S_ab},
     spf_output : {ResultPass, ResultFail},
     dkim_output : {<<>>, <<[result |-> ResultPass, d |-> S_ab]>>}]

\* One From address, every mix of authenticated identities
InputsAlignment ==
    [message_from : {<<Addr(S_ab)>>, <<Addr(S_cab)>>},
     mail_from_domain : MailFromDomains,
     spf_output : {ResultPass, ResultFail},
     dkim_output : SeqsUpTo(DkimOutputs, MaxDkim)]

\* From domains of 1 to MaxLabels labels, and one with an empty label
InputsTreeWalk ==
    [message_from : {<<Addr(Deep(k))>> : k \in 1..MaxLabels}
                    \cup {<<Addr(<<"a", ".", ".", "b">>)>>},
     mail_from_domain : {S_ab},
     spf_output : {ResultPass},
     dkim_output : {<<[result |-> ResultPass, d |-> S_ab]>>}]

Inputs == InputsMultiFrom \cup InputsAlignment \cup InputsTreeWalk

---------------------------------------------------------------------------
(* verify_dmarc as a state machine: one step per await of txt_lookup. *)

ReportIdle ==
    /\ report_domain = <<>>
    /\ addresses = <<>>
    /\ dns = <<>>
    /\ idx = 0
    /\ result = <<>>
    /\ ret = None

Init ==
    /\ \E in \in Inputs :
        /\ message_from = in.message_from
        /\ mail_from_domain = in.mail_from_domain
        /\ spf_output = in.spf_output
        /\ dkim_output = in.dkim_output
    /\ pc = "start"
    /\ from_domain = <<>>
    /\ labels = <<>>
    /\ x = 0
    /\ queries = <<>>
    /\ answers = <<>>
    /\ walk = None
    /\ output = None
    /\ ReportIdle

\* Extract RFC5322.From; return the default output when exempt or absent.
ExtractFromDomain ==
    /\ pc = "start"
    /\ from_domain' = ExtractFrom(message_from).from_domain
    /\ IF ExtractFrom(message_from).exempt \/ from_domain' = <<>>
       THEN /\ output' = Some(DefaultDmarcOutput)
            /\ pc' = "done"
       ELSE /\ output' = output
            /\ pc' = "tree_walk"
    /\ UNCHANGED <<message_from, dkim_output, mail_from_domain, spf_output,
                   labels, x, queries, answers, walk>>
    /\ UNCHANGED report_vars

\* dmarc_tree_walk: split the domain; a single label has no policy.
TreeWalkBegin ==
    /\ pc = "tree_walk"
    /\ labels' = Split(from_domain, ".")
    /\ x' = Len(labels')
    /\ IF x' = 1
       THEN /\ walk' = Some(WalkOk(None))
            /\ pc' = "walked"
       ELSE /\ walk' = walk
            /\ pc' = "lookup"
    /\ UNCHANGED <<message_from, dkim_output, mail_from_domain, spf_output,
                   from_domain, queries, answers, output>>
    /\ UNCHANGED report_vars

\* dmarc_tree_walk: one iteration of the while loop, with the answer a.
TxtLookup ==
    /\ pc = "lookup"
    /\ x # 0
    /\ \E a \in TxtAnswers :
        /\ queries' = Append(queries, QueryName(labels, x))
        /\ answers' = Append(answers, a)
        /\ \/ /\ a.kind = "Ok"
              /\ walk' = Some(WalkOk(Some(a.dmarc)))
              /\ pc' = "walked"
              /\ x' = x
           \/ /\ a.kind = "Err"
              /\ WalkContinues(a.err)
              /\ x' = NextX(x)
              /\ walk' = walk
              /\ pc' = "lookup"
           \/ /\ a.kind = "Err"
              /\ ~WalkContinues(a.err)
              /\ walk' = Some(WalkErr(a.err))
              /\ pc' = "walked"
              /\ x' = x
    /\ UNCHANGED <<message_from, dkim_output, mail_from_domain, spf_output,
                   from_domain, labels, output>>
    /\ UNCHANGED report_vars

\* dmarc_tree_walk: the while loop ends with x = 0.
TreeWalkEnd ==
    /\ pc = "lookup"
    /\ x = 0
    /\ walk' = Some(WalkOk(None))
    /\ pc' = "walked"
    /\ UNCHANGED <<message_from, dkim_output, mail_from_domain, spf_output,
                   from_domain, labels, x, queries, answers, output>>
    /\ UNCHANGED report_vars

\* verify_dmarc: the policy obtained, check alignment and return.
ReturnOutput ==
    /\ pc = "walked"
    /\ output' = Some(VerifyOutput(walk[1], from_domain, mail_from_domain,
                                   spf_output, dkim_output))
    /\ pc' = "done"
    /\ UNCHANGED <<message_from, dkim_output, mail_from_domain, spf_output,
                   from_domain, labels, x, queries, answers, walk>>
    /\ UNCHANGED report_vars

Next ==
    \/ ExtractFromDomain
    \/ TreeWalkBegin
    \/ TxtLookup
    \/ TreeWalkEnd
    \/ ReturnOutput

Spec == Init /\ [][Next]_vars

\* Every await returns: the runtime polls the future until it completes.
FairSpec == Spec /\ WF_vars(Next)

---------------------------------------------------------------------------
(* Properties of verify_dmarc. *)

Returned == pc = "done"
Out == output[1]
RecordFound == Returned /\ Out.record # None
Rec == Out.record[1]

\* a is b, or a is below b, or b is below a
RelaxedAligned(a, b) ==
    \/ a = b
    \/ EndsWith(a, <<".">> \o b)
    \/ EndsWith(b, <<".">> \o a)

ModeAligned(mode, a, b) == IF mode = Strict THEN a = b ELSE RelaxedAligned(a, b)

ProperlyRelated(a, b) ==
    \/ EndsWith(a, <<".">> \o b)
    \/ EndsWith(b, <<".">> \o a)

PassingSignatures == {i \in 1..Len(dkim_output) : dkim_output[i].result = ResultPass}

\* C1: with a record found, spf_result is pass iff SPF passed and mail_from_domain
\* is aligned with from_domain under the record's aspf mode (strict: equal;
\* relaxed: equal or one below the other); SPF passed and not aligned gives
\* fail(DMARCNotAligned).
C1_SpfAlignedIffModePredicate ==
    RecordFound =>
        /\ Out.spf_result = DmarcPass
             <=> /\ spf_output = ResultPass
                 /\ ModeAligned(Rec.aspf, mail_from_domain, from_domain)
        /\ (/\ spf_output = ResultPass
            /\ ~ModeAligned(Rec.aspf, mail_from_domain, from_domain))
             => Out.spf_result = DmarcFail(DMARCNotAligned)

\* C2: with a record found and some DKIM output passing, dkim_result is pass iff
\* a passing output's d is aligned with from_domain under the record's adkim
\* mode, and fail(DMARCNotAligned) otherwise; outputs that did not pass never
\* count.
C2_DkimAlignedIffPassingSignature ==
    (RecordFound /\ PassingSignatures # {}) =>
        IF \E i \in PassingSignatures :
               ModeAligned(Rec.adkim, dkim_output[i].d, from_domain)
        THEN Out.dkim_result = DmarcPass
        ELSE Out.dkim_result = DmarcFail(DMARCNotAligned)

C2_Witness ==
    /\ RecordFound
    /\ Out.dkim_result = DmarcFail(DMARCNotAligned)
    /\ \E i \in PassingSignatures : ~RelaxedAligned(dkim_output[i].d, from_domain)
    /\ \E i \in 1..Len(dkim_output) :
           dkim_output[i].result # ResultPass /\ dkim_output[i].d = from_domain

\* SPF aligned by a subdomain relation and not by equality
SpfAlignedBySubdomain ==
    /\ spf_output = ResultPass
    /\ mail_from_domain # from_domain
    /\ ModeAligned(Rec.aspf, mail_from_domain, from_domain)

\* DKIM aligned by a subdomain relation and not by equality
DkimAlignedBySubdomain ==
    /\ \E i \in PassingSignatures :
           ModeAligned(Rec.adkim, dkim_output[i].d, from_domain)
    /\ \A i \in PassingSignatures : dkim_output[i].d # from_domain

\* DKIM not aligned although a passing signature's d is below or above from_domain
DkimFailedButRelated ==
    /\ \A i \in PassingSignatures :
           ~ModeAligned(Rec.adkim, dkim_output[i].d, from_domain)
    /\ \E i \in PassingSignatures : ProperlyRelated(dkim_output[i].d, from_domain)

\* C3: with a record found, the policy is the record's sp when SPF or DKIM is
\* aligned through a subdomain relation rather than equality, or DKIM alignment
\* fails while a passing signature's d is related to from_domain; in every
\* other case it is the record's p.
C3_PolicyIsSpOnSubdomainRelation ==
    RecordFound =>
        Out.policy = IF \/ SpfAlignedBySubdomain
                        \/ DkimAlignedBySubdomain
                        \/ DkimFailedButRelated
                     THEN Rec.sp
                     ELSE Rec.p

\* The policy rule on the axis results verify_dmarc itself reports: sp when
\* spf_result is pass for a mail_from_domain other than from_domain, when
\* dkim_result is pass without an exact match, or when dkim_result is fail with
\* a related passing signature; p otherwise.
PolicyFollowsReportedAlignment ==
    RecordFound =>
        Out.policy =
            IF \/ /\ Out.spf_result = DmarcPass
                  /\ mail_from_domain # from_domain
               \/ /\ Out.dkim_result = DmarcPass
                  /\ \A i \in PassingSignatures : dkim_output[i].d # from_domain
               \/ /\ Out.dkim_result = DmarcFail(DMARCNotAligned)
                  /\ \E i \in PassingSignatures :
                         ProperlyRelated(dkim_output[i].d, from_domain)
            THEN Rec.sp
            ELSE Rec.p

\* The non-empty domains of the From addresses
FromDomains ==
    {RSplitOnceAfter(message_from[i], "@")[1] :
        i \in {j \in 1..Len(message_from) : RSplitOnceAfter(message_from[j], "@") # None}}
    \ {<<>>}

\* C4: when the From addresses hold two different domains, verify_dmarc returns
\* the default output whatever the other inputs are, and issues no lookup.
C4_MultiFromIsExempt ==
    (Cardinality(FromDomains) > 1 /\ pc # "start") =>
        /\ Returned
        /\ Out = DefaultDmarcOutput
        /\ queries = <<>>

C4_Witness ==
    /\ Returned
    /\ Cardinality(FromDomains) > 1
    /\ spf_output = ResultPass
    /\ PassingSignatures # {}

LabelCount(s) == Cardinality({i \in 1..Len(s) : s[i] = "."}) + 1

Min(a, b) == IF a < b THEN a ELSE b

\* C5: the tree walk ends, after at most min(|labels|, 5) queries; a domain of a
\* single label is not queried and has no record.
C5_WalkTerminates ==
    /\ <>Returned
    /\ [](Len(queries) <= Min(LabelCount(from_domain), 5))
    /\ []((Returned /\ Out.domain # <<>> /\ LabelCount(from_domain) = 1)
            => queries = <<>> /\ Out.record = None)

C5_Witness ==
    /\ Returned
    /\ LabelCount(from_domain) > 5
    /\ Len(queries) = 5

C5_WitnessSingleLabel ==
    /\ Returned
    /\ Out.domain # <<>>
    /\ LabelCount(from_domain) = 1

\* C6: spf_result = pass under aspf = strict stays pass with only aspf changed to
\* relaxed, and dkim_result = pass under adkim = strict stays pass with only
\* adkim changed to relaxed.
C6_StrictImpliesRelaxed ==
    RecordFound =>
        /\ (Rec.aspf = Strict /\ Out.spf_result = DmarcPass)
             => VerifyOutput(WalkOk(Some([Rec EXCEPT !.aspf = Relaxed])),
                             from_domain, mail_from_domain, spf_output,
                             dkim_output).spf_result = DmarcPass
        /\ (Rec.adkim = Strict /\ Out.dkim_result = DmarcPass)
             => VerifyOutput(WalkOk(Some([Rec EXCEPT !.adkim = Relaxed])),
                             from_domain, mail_from_domain, spf_output,
                             dkim_output).dkim_result = DmarcPass

C6_Witness ==
    /\ RecordFound
    /\ Rec.aspf = Strict
    /\ Rec.adkim = Strict
    /\ Out.spf_result = DmarcPass
    /\ Out.dkim_result = DmarcPass

NotFoundAnswer(a) ==
    a.kind = "Err" /\ a.err \in {DNSRecordNotFound, InvalidRecordType}

Queried == Len(queries') = Len(queries) + 1

WalkFailed == walk # None /\ walk[1].kind = "Err"

\* C8: a DNSRecordNotFound or InvalidRecordType answer lets the walk go on to the
\* next candidate; any other error ends it at once, no further query is issued,
\* and verify_dmarc returns from_domain, the default policy, no record and the
\* same temperror on both axes.
C8_WalkErrorHandling ==
    /\ [][(Queried /\ NotFoundAnswer(answers'[Len(answers')]))
            => /\ walk' = None
               /\ pc' = "lookup"
               /\ x' = IF x < 5 THEN x - 1 ELSE 4]_vars
    /\ [][(Queried /\ answers'[Len(answers')].kind = "Err"
                   /\ ~NotFoundAnswer(answers'[Len(answers')]))
            => walk' = Some(WalkErr(answers'[Len(answers')].err))]_vars
    /\ [][WalkFailed => queries' = queries]_vars
    /\ []((Returned /\ WalkFailed)
            => /\ Out.domain = from_domain
               /\ Out.policy = PolicyDefault
               /\ Out.record = None
               /\ Out.dkim_result = Out.spf_result
               /\ Out.spf_result.kind = "TempError")

C8_Witness ==
    /\ Returned
    /\ WalkFailed
    /\ Len(queries) = 3
    /\ LabelCount(from_domain) > 5
    /\ answers[1].err = DNSRecordNotFound
    /\ answers[2].err = InvalidRecordType

\* C9: with a record found and neither SPF nor any DKIM output passing, both axis
\* results are none, the policy is the record's p, the domain is from_domain and
\* the record returned by the lookup is attached.
C9_NoPassKeepsPolicy ==
    (RecordFound /\ spf_output # ResultPass /\ PassingSignatures = {}) =>
        /\ Out.spf_result = DmarcNone
        /\ Out.dkim_result = DmarcNone
        /\ Out.policy = Rec.p
        /\ Out.domain = from_domain
        /\ Out.record = Some(answers[Len(answers)].dmarc)

C9_Witness ==
    /\ RecordFound
    /\ spf_output # ResultPass
    /\ PassingSignatures = {}
    /\ Rec.p # Rec.sp
    /\ ProperlyRelated(mail_from_domain, from_domain)
    /\ \E i \in 1..Len(dkim_output) : ProperlyRelated(dkim_output[i].d, from_domain)

\* The i-th candidate of a walk over n labels: n, then x-1 below 5 and 4 from 5 on
RECURSIVE CandidateAt(_, _)
CandidateAt(n, i) ==
    IF i = 1
    THEN n
    ELSE IF CandidateAt(n, i - 1) < 5 THEN CandidateAt(n, i - 1) - 1 ELSE 4

\* The rightmost k labels of s: what follows the dot that has k-1 dots after it
RightmostLabels(s, k) ==
    IF k >= LabelCount(s)
    THEN s
    ELSE SubSeq(s,
                1 + CHOOSE i \in 1..Len(s) :
                        s[i] = "." /\ LabelCount(SubSeq(s, i + 1, Len(s))) = k,
                Len(s))

DmarcName(s, k) == <<"_", "d", "m", "a", "r", "c", ".">> \o RightmostLabels(s, k) \o <<".">>

\* C10: the i-th query is "_dmarc.<rightmost x labels>." for x = n, then x-1 below
\* 5 and 4 from 5 on; a query follows only not-found answers; the record
\* returned is that of the first successful query; without any, the walk ends
\* after the 1-label suffix; suffixes of 5..n-1 labels are never queried.
C10_QueryOrder ==
    /\ Len(answers) = Len(queries)
    /\ \A i \in 1..Len(queries) :
           /\ CandidateAt(LabelCount(from_domain), i) >= 1
           /\ queries[i] = DmarcName(from_domain, CandidateAt(LabelCount(from_domain), i))
           /\ \A k \in 5..(LabelCount(from_domain) - 1) :
                  queries[i] # DmarcName(from_domain, k)
    /\ \A i \in 1..(Len(answers) - 1) : NotFoundAnswer(answers[i])
    /\ (walk # None /\ walk[1].kind = "Ok" /\ walk[1].dmarc # None)
         => answers[Len(answers)] = TxtOk(walk[1].dmarc[1])
    /\ (walk # None /\ walk[1].kind = "Ok" /\ walk[1].dmarc = None
                    /\ LabelCount(from_domain) >= 2)
         => /\ \A i \in 1..Len(answers) : NotFoundAnswer(answers[i])
            /\ queries[Len(queries)] = DmarcName(from_domain, 1)

C10_Witness ==
    /\ Returned
    /\ LabelCount(from_domain) > 5
    /\ Len(queries) = 5
    /\ Out.record # None

C10_WitnessNoRecord ==
    /\ Returned
    /\ LabelCount(from_domain) > 5
    /\ Len(queries) = 5
    /\ Out.record = None
    /\ ~WalkFailed

---------------------------------------------------------------------------
(* verify_dmarc_report_address as a state machine. *)

\* format!("{}.report.dmarc.{}.", domain, address domain)
ReportName(domain, d) ==
    domain
    \o <<".", "r", "e", "p", "o", "r", "t", ".", "d", "m", "a", "r", "c", ".">>
    \o d \o <<".">>

\* address.uri.rsplit_once('@').map(|(_, d)| d).unwrap_or_default()
AddressDomain(uri) ==
    IF RSplitOnceAfter(uri, "@") = None THEN <<>> ELSE RSplitOnceAfter(uri, "@")[1]

\* The first operand of ||: no lookup is made for such an address.
AcceptedWithoutLookup(uri, domain) == EndsWith(uri, domain)

\* Report addresses: at the domain, below it, elsewhere, and at domains whose
\* names end with the letters of the publishing domain
ReportUris == {Addr(S_ab), Addr(S_cab), Addr(S_cb), Addr(S_dab), <<"u">>}

ReportDomains == {S_ab}

ReportAnswers ==
    {TxtOk([p |-> "none", sp |-> "none", aspf |-> Relaxed, adkim |-> Relaxed])}
    \cup {TxtErr(e) : e \in {DNSRecordNotFound, InvalidRecordType, DNSError}}

ReportNames(domain) == {ReportName(domain, AddressDomain(u)) : u \in ReportUris}

DmarcIdle ==
    /\ message_from = <<>>
    /\ dkim_output = <<>>
    /\ mail_from_domain = <<>>
    /\ spf_output = ResultFail
    /\ from_domain = <<>>
    /\ labels = <<>>
    /\ x = 0
    /\ walk = None
    /\ output = None

InitReport ==
    /\ report_domain \in ReportDomains
    /\ addresses \in SeqsUpTo(ReportUris, MaxUris)
    /\ dns \in [ReportNames(report_domain) -> ReportAnswers]
    /\ idx = 1
    /\ result = <<>>
    /\ ret = None
    /\ pc = "report_loop"
    /\ queries = <<>>
    /\ answers = <<>>
    /\ DmarcIdle

\* The address ends with the domain: pushed without a lookup.
ReportAccept ==
    /\ pc = "report_loop"
    /\ idx <= Len(addresses)
    /\ AcceptedWithoutLookup(addresses[idx], report_domain)
    /\ result' = Append(result, addresses[idx])
    /\ idx' = idx + 1
    /\ UNCHANGED <<pc, queries, answers, report_domain, addresses, dns, ret>>
    /\ UNCHANGED dmarc_vars

\* Otherwise the authorisation record of the address domain is looked up.
ReportLookup ==
    /\ pc = "report_loop"
    /\ idx <= Len(addresses)
    /\ ~AcceptedWithoutLookup(addresses[idx], report_domain)
    /\ queries' = Append(queries, ReportName(report_domain, AddressDomain(addresses[idx])))
    /\ answers' = Append(answers, dns[queries'[Len(queries')]])
    /\ \/ /\ answers'[Len(answers')].kind = "Ok"
          /\ result' = Append(result, addresses[idx])
          /\ idx' = idx + 1
          /\ UNCHANGED <<pc, ret>>
       \/ /\ answers'[Len(answers')] = TxtErr(DNSError)
          /\ ret' = Some(None)
          /\ pc' = "report_done"
          /\ UNCHANGED <<result, idx>>
       \/ /\ answers'[Len(answers')].kind = "Err"
          /\ answers'[Len(answers')].err # DNSError
          /\ idx' = idx + 1
          /\ UNCHANGED <<pc, ret, result>>
    /\ UNCHANGED <<report_domain, addresses, dns>>
    /\ UNCHANGED dmarc_vars

\* result.into()
ReportReturn ==
    /\ pc = "report_loop"
    /\ idx > Len(addresses)
    /\ ret' = Some(Some(result))
    /\ pc' = "report_done"
    /\ UNCHANGED <<queries, answers, report_domain, addresses, dns, idx, result>>
    /\ UNCHANGED dmarc_vars

NextReport ==
    \/ ReportAccept
    \/ ReportLookup
    \/ ReportReturn

SpecReport == InitReport /\ [][NextReport]_vars

---------------------------------------------------------------------------
(* Properties of verify_dmarc_report_address. *)

\* The address domain is the publishing domain or below it, or the publishing
\* domain is authorised by a record at the address domain
ReportAddressValid(uri) ==
    \/ AddressDomain(uri) = report_domain
    \/ EndsWith(AddressDomain(uri), <<".">> \o report_domain)
    \/ dns[ReportName(report_domain, AddressDomain(uri))].kind = "Ok"

\* C7: without a DNS transport error the result is, in input order, exactly the
\* URIs whose address domain is the publishing domain or below it, or whose
\* authorisation lookup returns a record; with a transport error it is None.
C7_ReportAddressesFiltered ==
    pc = "report_done" =>
        IF \E i \in 1..Len(answers) : answers[i] = TxtErr(DNSError)
        THEN ret = Some(None)
        ELSE ret = Some(Some(SelectSeq(addresses, ReportAddressValid)))

====
